---- MODULE Spec2Model ----
(***************************************************************************)
(* Offline-first synchronisation engine of project-tree (prototype-1.0.3). *)
(*                                                                         *)
(*   OfflineService.ts      operation queue, connectivity monitor, sync    *)
(*                          scheduler, status notification bus             *)
(*   services/ProcoreAPI.ts token-guarded request pipeline, mirror-sync    *)
(*                          circuit breaker                                *)
(*                                                                         *)
(* JavaScript runs handlers to completion between awaits, so one action    *)
(* here is the code between two consecutive awaits of a handler.           *)
(***************************************************************************)
EXTENDS Integers, Sequences, FiniteSets, TLC

\* ------------------------------------------------------------------------
\* Bounds of the model
\* ------------------------------------------------------------------------
\* rows the sync_queue table may hold through queueOperation
MaxOps == 2
\* concurrent calls of one public method awaiting their count refresh
MaxInFlight == 1
\* rows already stored in sync_queue when the drain scenario starts
MaxPending == 11

\* requests the pipeline is given
MaxReq == 2
\* token versions the credential provider hands out after the first
MaxTok == 2
\* seconds the pipeline is observed
MaxTime == 6
\* mirror syncs that may overlap
MaxFetch == 2
\* minutes the circuit breaker is observed
MaxMinutes == 6
\* concurrent callers of AuthService
MaxAuthCalls == 2
\* token sets the OAuth provider grants after the stored one
MaxGrants == 2

\* ------------------------------------------------------------------------
\* Program constants
\* ------------------------------------------------------------------------
\* .limit(10): rows fetched by one pass
BatchSize == 10
\* retryCount >= 3 ? 'failed' : 'pending'
RetryCeiling == 3

\* now - this.lastRefreshAttempt < 5000, in seconds
RateLimit == 5
\* setTimeout(..., 5 * 60 * 1000), in minutes
Cooldown == 5

Entities == {"A", "B"}
OpActions == {"create", "update", "delete"}
CallKinds == {"tick", "queue", "retry", "manual"}
Listeners == {"l1", "l2"}
\* attempts[id] of a row whose count no longer describes one delivery budget
Stale == 0 - 1

VARIABLES
  \* ---- OfflineService fields
  isOnline,          \* this.isOnline
  isSyncing,         \* this.isSyncing
  pendingSyncCount,  \* this.pendingSyncCount
  lastSyncTime,      \* this.lastSyncTime: 0 is null, 1 and 2 are two
                     \* successive distinct readings of Date.now()
  listeners,         \* this.syncStatusListeners
  \* ---- storage and environment
  queue,             \* rows of sync_queue in insertion order; the row id of
                     \* the model is the position in this sequence
  now,               \* Date.now() of the latest stored row
  remoteOk,          \* TRUE: the remote accepts every delivery
  lastSeen,          \* per listener callback: the last snapshot it was given
  \* ---- control state
  passes,            \* executions of syncPendingOperations past the guard
  calls,             \* calls awaiting refreshPendingCount, by method
  refreshFailed,     \* the last count query ended in the catch branch
  \* ---- history, written only by the specifications that read it
  lastNotify,        \* the latest notifySyncStatusListeners: its listeners,
                     \* the ones it invoked, the ones that threw
  attempts,          \* per row: deliveries attempted since it was enqueued
                     \* or manually retried from failed; Stale otherwise
  acked              \* rows the remote has acknowledged at least once

VARIABLES
  \* ---- ProcoreAPI: token-guarded request pipeline
  accessToken,        \* this.accessToken, as the version of the token
  tokenExpired,       \* now > tokenExpiry - 30 s, what isTokenValid tests
  refreshInProgress,  \* this.refreshInProgress
  lastRefreshAttempt, \* this.lastRefreshAttempt, in seconds
  hasCallback,        \* config.tokenRefreshCallback is set
  rpc,                \* per request: where it is in the interceptors
  rretry,             \* per request: originalRequest._retry
  fpc,                \* per fetch: idle, or awaiting its token refresh
  ptime,              \* seconds since the instance was built
  refreshCalls,       \* history: calls of tokenRefreshCallback so far
  \* ---- ProcoreAPI: mirror sync and its circuit breaker
  useSyncToSupabase,  \* this.useSyncToSupabase
  reenable,           \* due times of the armed re-enable timers
  bpc,                \* per fetch: idle, or awaiting syncInteractions
  minutes,            \* minutes since the instance was built
  lastRls,            \* history: minute of the latest RLS error, -1 none
  breach              \* history: a mirror write began inside a cooldown

VARIABLES
  \* ---- what callers and the remote hold, kept where a property needs it -
  handles,            \* listeners whose subscriber holds the unsubscribe
                      \* function addSyncStatusListener returned
  resets,             \* rows that retryFailedOperation took out of failed
  mirror,             \* table interactions: per entity, whether a record is
                      \* stored, its _local_status and its _sync_pending
  wpc,                \* the local write that is between its update of the
                      \* mirror and its queueOperation, if any
  lastWrite,          \* how the latest local write ended for its caller
  tombs,              \* entities that deleteInteraction has marked deleted
  denied,             \* rows a delivery of which the remote refused with a
                      \* permission error
  carried,            \* per request: whether the credential it last went
                      \* out with passed isTokenValid
  lastCall,           \* when tokenRefreshCallback was last called
  tooSoon,            \* two calls of tokenRefreshCallback were less than
                      \* five seconds apart
  answered,           \* per request: the status of the last response
  mirrorToken,        \* SupabaseService.accessToken is set
  mupd,               \* SupabaseService.updateInteraction: where it stands,
                      \* how often the update went out, what it returned
  escaped,            \* an error left syncPendingOperations uncaught
  lastFault,          \* where the latest error of a pass was raised
  tried,              \* the deliveries of the pass that is running: row
                      \* and outcome
  manualResult,       \* the latest manualSync past its refresh: what it
                      \* returns, whether it ran a pass
  lastSwitch          \* what the latest setSupabaseSync call asked for

VARIABLES
  \* ---- AuthService
  tokenRequestInProgress, \* AuthService.tokenRequestInProgress
  stored,             \* localStorage procore_auth_tokens: none, or the
                      \* grant it holds and whether isAuthenticated accepts it
  apc,                \* per caller: the method it runs and where it stands
  granted,            \* token sets the provider has granted so far
  lastServed          \* the token request the provider answered last

avars == <<tokenRequestInProgress, stored, apc, granted, lastServed>>

VARIABLES
  \* ---- ProcoreAPI.getAllInteractions
  gpc,                \* per call: where it stands, whether it found rows
                      \* in the mirror, the syncToSupabase its fetch got
  rows,               \* the mirror holds interactions of the project
  wrote               \* the latest write of fetched data to the mirror

gvars == <<gpc, rows, wrote>>

wvars == <<mirror, wpc, lastWrite, tombs>>

tvars == <<carried, lastCall, tooSoon, answered>>
mvars == <<mirrorToken, mupd>>
yvars == <<escaped, lastFault, tried, manualResult, lastSwitch>>
xvars ==
  <<handles, resets, wvars, denied, tvars, mvars, yvars, avars, gvars>>

pvars == <<accessToken, tokenExpired, refreshInProgress, lastRefreshAttempt,
           hasCallback, rpc, rretry, fpc, ptime, refreshCalls>>

bvars == <<useSyncToSupabase, reenable, bpc, minutes, lastRls, breach>>

\* the program state of OfflineService
ovars == <<isOnline, isSyncing, pendingSyncCount, lastSyncTime, listeners,
           queue, now, remoteOk, lastSeen, passes, calls, refreshFailed,
           lastNotify>>

hvars == <<attempts, acked>>

\* what a step of OfflineService with no history to write leaves alone
rest == <<hvars, pvars, bvars, xvars>>

\* ------------------------------------------------------------------------
\* Helpers
\* ------------------------------------------------------------------------
Ids == 1..Len(queue)

Range(s) == {s[i] : i \in DOMAIN s}

RemoveAt(s, i) == [j \in 1..(Len(s) - 1) |-> IF j < i THEN s[j] ELSE s[j + 1]]

Min(a, b) == IF a < b THEN a ELSE b

\* a fresh reading of Date.now() differs from the previous one
NextStamp(t) == IF t = 1 THEN 2 ELSE 1

\* ------------------------------------------------------------------------
\* sync_queue queries
\* ------------------------------------------------------------------------
PendingIds(q) == {i \in 1..Len(q) : q[i].status = "pending"}

\* select('*', { count: 'exact', head: true }).eq('status', 'pending')
CountPending(q) == Cardinality(PendingIds(q))

\* rows of P with the smallest timestamp
Oldest(q, P) == {i \in P : \A j \in P : q[i].ts <= q[j].ts}

\* insertion order among rows of equal timestamp
FifoTie(C) == {i \in C : \A j \in C : i <= j}

\* .order('timestamp', { ascending: true }) names no second sort key: rows of
\* equal timestamp come back in whatever order the database produces
TieOrder(C) == C

\* .eq('status','pending').order('timestamp').limit(k): every sequence the
\* query may return
RECURSIVE SelectBatch(_, _, _)
SelectBatch(q, P, k) ==
  IF P = {} \/ k = 0 THEN {<<>>}
  ELSE UNION {{<<m>> \o s : s \in SelectBatch(q, P \ {m}, k - 1)} :
              m \in TieOrder(Oldest(q, P))}

\* the batch of the queue contract: oldest first, ties by insertion order
RECURSIVE FifoBatch(_, _, _)
FifoBatch(q, P, k) ==
  IF P = {} \/ k = 0 THEN <<>>
  ELSE LET m == CHOOSE i \in FifoTie(Oldest(q, P)) : TRUE
       IN <<m>> \o FifoBatch(q, P \ {m}, k - 1)

\* the rows as the pass holds them: `operations` is a snapshot
Snapshot(q, b) == [j \in 1..Len(b) |-> [id |-> b[j], rc |-> q[b[j]].rc]]

BatchIds(p) == [j \in 1..Len(p.batch) |-> p.batch[j].id]

\* ------------------------------------------------------------------------
\* notifySyncStatusListeners
\* ------------------------------------------------------------------------
StatusEvent(online, count, syncing, last) ==
  [isOnline |-> online, pendingCount |-> count, syncInProgress |-> syncing,
   lastSyncTime |-> last]

\* a forEach whose callback is not wrapped in try / catch: the first throw
\* ends the loop
RECURSIVE InvokedUntilThrow(_, _)
InvokedUntilThrow(ls, throwers) ==
  IF ls = <<>> THEN <<>>
  ELSE IF Head(ls) \in throwers THEN <<Head(ls)>>
  ELSE <<Head(ls)>> \o InvokedUntilThrow(Tail(ls), throwers)

\* forEach(listener => { try { listener(status) } catch { log } }): the
\* listeners called, in order, when those of `throwers` throw
RECURSIVE Invoked(_, _)
Invoked(ls, throwers) ==
  IF ls = <<>> THEN <<>>
  ELSE <<Head(ls)>> \o Invoked(Tail(ls), throwers)

\* the last notification of a handler, if it made one: `ev` reaches the
\* listeners, any of which may throw
Notify(made, ev) ==
  IF made
  THEN \E throwers \in SUBSET Range(listeners) :
         LET inv == Invoked(listeners, throwers)
         IN /\ lastSeen' = [l \in Listeners |->
                              IF l \in Range(inv) THEN ev ELSE lastSeen[l]]
            /\ lastNotify' = [targets |-> listeners, invoked |-> inv,
                              threw |-> throwers]
  ELSE UNCHANGED <<lastSeen, lastNotify>>

\* ------------------------------------------------------------------------
\* syncPendingOperations
\* ------------------------------------------------------------------------
\* the guard without its test of isSyncing
SyncGuardNoFlag(online, syncing) == online

\* if (!this.isInitialized || !this.isOnline || this.isSyncing) return;
\* isInitialized is true from the constructor on
SyncGuard(online, syncing) == online /\ ~syncing

NewPass == [pc |-> "select", batch |-> <<>>, idx |-> 0, res |-> "none"]

BodyPcs == {"select", "deliver", "mark", "count"}

\* executions inside the try block of syncPendingOperations
Running == {i \in DOMAIN passes : passes[i].pc \in BodyPcs}

\* a ceiling test that lets one more attempt through
FailStatusLate(rc) == IF rc > RetryCeiling THEN "failed" ELSE "pending"

\* const status = retryCount >= 3 ? 'failed' : 'pending'
FailStatus(rc) == IF rc >= RetryCeiling THEN "failed" ELSE "pending"

\* the row update after a delivery: synced, or retryCount + 1 and its status
MarkRow(row, snap, ok) ==
  IF ok THEN [row EXCEPT !.status = "synced"]
  ELSE [row EXCEPT !.rc = snap.rc + 1, !.status = FailStatus(snap.rc + 1)]

\* an update that puts the row back to pending and keeps its retryCount
ResetRowKeepCount(row) == [row EXCEPT !.status = "pending"]

\* update({ status: 'pending', retryCount: 0, error: null })
ResetRow(row) == [row EXCEPT !.status = "pending", !.rc = 0]

\* the part of a handler that calls syncPendingOperations(): past the guard
\* isSyncing = true and the pass runs to its first await
StartPass(start, ps) ==
  /\ isSyncing' = (isSyncing \/ start)
  /\ passes' = IF start THEN Append(ps, NewPass) ELSE ps

\* refreshPendingCount: the count query and its assignment
RefreshCount(err) ==
  /\ pendingSyncCount' = IF err THEN pendingSyncCount ELSE CountPending(queue)
  /\ refreshFailed' = err

\* ------------------------------------------------------------------------
\* Handlers of OfflineService, each from one await to the next
\* ------------------------------------------------------------------------
\* what a callback holds before it is given a snapshot
NoEvent == StatusEvent(TRUE, 0, FALSE, 0)

Current == StatusEvent(isOnline, pendingSyncCount, isSyncing, lastSyncTime)

\* a handler that drops the pass in progress when the service goes offline
handleConnectionChangeCancels ==
  /\ isOnline' = ~isOnline
  /\ IF isOnline
     THEN isSyncing' = FALSE /\ passes' = <<>>
     ELSE StartPass(SyncGuard(isOnline', isSyncing), passes)
  /\ Notify(TRUE, StatusEvent(isOnline', pendingSyncCount, isSyncing',
                              lastSyncTime))
  /\ UNCHANGED <<pendingSyncCount, lastSyncTime, listeners, queue, now,
                 remoteOk, calls, refreshFailed>>

\* window 'online' / 'offline' event
handleConnectionChange ==
  /\ isOnline' = ~isOnline
  /\ StartPass(~isOnline /\ SyncGuard(isOnline', isSyncing), passes)
  /\ Notify(TRUE, StatusEvent(isOnline', pendingSyncCount, isSyncing',
                              lastSyncTime))
  /\ UNCHANGED <<pendingSyncCount, lastSyncTime, listeners, queue, now,
                 remoteOk, calls, refreshFailed>>

\* the setInterval callback: refreshPendingCount() is not awaited, the test
\* reads the count as it is
TimerTick ==
  /\ calls["tick"] < MaxInFlight
  /\ calls' = [calls EXCEPT !["tick"] = @ + 1]
  /\ StartPass(isOnline /\ pendingSyncCount > 0 /\ ~isSyncing
               /\ SyncGuard(isOnline, isSyncing), passes)
  /\ Notify(isSyncing' # isSyncing,
            StatusEvent(isOnline, pendingSyncCount, TRUE, lastSyncTime))
  /\ UNCHANGED <<isOnline, pendingSyncCount, lastSyncTime, listeners, queue,
                 now, remoteOk, refreshFailed>>

\* queueOperation up to the await of refreshPendingCount. The row id is
\* `${resource}-${data.id}-${Date.now()}`: a second row for the same entity in
\* the same millisecond violates the primary key
queueOperation(act, ent, adv, err) ==
  /\ Len(queue) < MaxOps
  /\ calls["queue"] < MaxInFlight
  /\ LET ts == now + adv
         dup == \E i \in Ids : queue[i].ent = ent /\ queue[i].ts = ts
         row == [ent |-> ent, act |-> act, resource |-> "interaction",
                 ts |-> ts, status |-> "pending", rc |-> 0]
     IN IF err \/ dup
        THEN UNCHANGED <<queue, calls, now>>
        ELSE /\ queue' = Append(queue, row)
             /\ now' = ts
             /\ calls' = [calls EXCEPT !["queue"] = @ + 1]
  /\ UNCHANGED <<isOnline, isSyncing, pendingSyncCount, lastSyncTime,
                 listeners, remoteOk, lastSeen, passes, refreshFailed,
                 lastNotify>>

\* retryFailedOperation up to the await of refreshPendingCount; the update is
\* .eq('id', operationId) whatever the row's status
retryFailedOperation(id, err) ==
  /\ id \in Ids
  /\ calls["retry"] < MaxInFlight
  /\ IF err
     THEN UNCHANGED <<queue, calls>>
     ELSE /\ queue' = [queue EXCEPT ![id] = ResetRow(@)]
          /\ calls' = [calls EXCEPT !["retry"] = @ + 1]
  /\ UNCHANGED <<isOnline, isSyncing, pendingSyncCount, lastSyncTime,
                 listeners, now, remoteOk, lastSeen, passes, refreshFailed,
                 lastNotify>>

\* manualSync up to the await of refreshPendingCount; offline or syncing it
\* returns false at once
manualSync ==
  /\ calls["manual"] < MaxInFlight
  /\ isOnline /\ ~isSyncing
  /\ calls' = [calls EXCEPT !["manual"] = @ + 1]
  /\ UNCHANGED <<isOnline, isSyncing, pendingSyncCount, lastSyncTime,
                 listeners, queue, now, remoteOk, lastSeen, passes,
                 refreshFailed, lastNotify>>

\* the count query of a caller returns; the caller runs on to its end
AfterRefresh(kind, err) ==
  /\ calls[kind] > 0
  /\ calls' = [calls EXCEPT ![kind] = @ - 1]
  /\ RefreshCount(err)
  /\ LET start ==
           CASE kind = "tick" -> FALSE
             [] kind \in {"queue", "retry"} ->
                  isOnline /\ ~isSyncing /\ SyncGuard(isOnline, isSyncing)
             [] kind = "manual" ->
                  pendingSyncCount' > 0 /\ SyncGuard(isOnline, isSyncing)
     IN StartPass(start, passes)
  /\ Notify(pendingSyncCount' # pendingSyncCount \/ isSyncing' # isSyncing,
            StatusEvent(isOnline, pendingSyncCount', isSyncing',
                        lastSyncTime))
  /\ UNCHANGED <<isOnline, lastSyncTime, listeners, queue, now, remoteOk>>

\* the batch query of a pass returns: an error, no row, or the batch
PassSelect(i, err) ==
  /\ i \in DOMAIN passes
  /\ passes[i].pc = "select"
  /\ IF err
     THEN /\ isSyncing' = FALSE
          /\ passes' = RemoveAt(passes, i)
          /\ UNCHANGED lastSyncTime
          /\ Notify(TRUE, StatusEvent(isOnline, pendingSyncCount, FALSE,
                                      lastSyncTime))
     ELSE \E b \in SelectBatch(queue, PendingIds(queue), BatchSize) :
            IF b = <<>>
            THEN /\ isSyncing' = FALSE
                 /\ lastSyncTime' = NextStamp(lastSyncTime)
                 /\ passes' = RemoveAt(passes, i)
                 /\ Notify(TRUE, StatusEvent(isOnline, pendingSyncCount,
                                             FALSE, lastSyncTime'))
            ELSE /\ passes' = [passes EXCEPT ![i] =
                       [pc |-> "deliver", batch |-> Snapshot(queue, b),
                        idx |-> 1, res |-> "none"]]
                 /\ UNCHANGED <<isSyncing, lastSyncTime, lastSeen,
                                lastNotify>>
  /\ UNCHANGED <<isOnline, pendingSyncCount, listeners, queue, now, remoteOk,
                 calls, refreshFailed>>

\* the row a pass is delivering
Delivering(i) == passes[i].batch[passes[i].idx].id

\* processOperation(operation) resolves (TRUE) or throws (FALSE): the branch
\* of an interaction or a project makes the call to the remote, which is
\* accepted or not; an operation of any other resource runs no branch
processOperation(resource, accepted) ==
  IF resource \in {"interaction", "project"} THEN accepted ELSE TRUE

\* processOperation of the current row settles
PassDeliver(i, ok) ==
  /\ i \in DOMAIN passes
  /\ passes[i].pc = "deliver"
  /\ remoteOk => ok
  /\ passes' = [passes EXCEPT
       ![i].pc = "mark",
       ![i].res = IF processOperation(queue[Delivering(i)].resource, ok)
                  THEN "ok" ELSE "error"]
  /\ UNCHANGED <<isOnline, isSyncing, pendingSyncCount, lastSyncTime,
                 listeners, queue, now, remoteOk, lastSeen, calls,
                 refreshFailed, lastNotify>>

\* a loop that leaves the batch at the first failed delivery
AdvanceUntilError(p) ==
  IF p.idx < Len(p.batch) /\ p.res # "error"
  THEN [p EXCEPT !.pc = "deliver", !.idx = p.idx + 1, !.res = "none"]
  ELSE [p EXCEPT !.pc = "count", !.res = "none"]

\* for (const operation of operations): after the update of a row the loop
\* takes the next one, whatever the outcome, and ends after the last
Advance(p) ==
  IF p.idx < Len(p.batch)
  THEN [p EXCEPT !.pc = "deliver", !.idx = p.idx + 1, !.res = "none"]
  ELSE [p EXCEPT !.pc = "count", !.res = "none"]

\* the status update of the current row is applied
PassMark(i) ==
  /\ i \in DOMAIN passes
  /\ passes[i].pc = "mark"
  /\ LET p == passes[i]
         snap == p.batch[p.idx]
     IN /\ queue' = [queue EXCEPT ![snap.id] =
                       MarkRow(@, snap, p.res = "ok")]
        /\ passes' = [passes EXCEPT ![i] = Advance(p)]
  /\ UNCHANGED <<isOnline, isSyncing, pendingSyncCount, lastSyncTime,
                 listeners, now, remoteOk, lastSeen, calls, refreshFailed,
                 lastNotify>>

\* the count refresh that ends the pass returns; a full batch with rows left
\* schedules the next pass and leaves isSyncing set
PassCount(i, err) ==
  /\ i \in DOMAIN passes
  /\ passes[i].pc = "count"
  /\ RefreshCount(err)
  /\ lastSyncTime' = NextStamp(lastSyncTime)
  /\ IF Len(passes[i].batch) = BatchSize /\ pendingSyncCount' > 0
     THEN /\ passes' = [passes EXCEPT ![i].pc = "wait"]
          /\ UNCHANGED isSyncing
          /\ Notify(pendingSyncCount' # pendingSyncCount,
                    StatusEvent(isOnline, pendingSyncCount', isSyncing,
                                lastSyncTime))
     ELSE /\ passes' = RemoveAt(passes, i)
          /\ isSyncing' = FALSE
          /\ Notify(TRUE, StatusEvent(isOnline, pendingSyncCount', FALSE,
                                      lastSyncTime'))
  /\ UNCHANGED <<isOnline, listeners, queue, now, remoteOk, calls>>

\* setTimeout(() => this.syncPendingOperations(), 1000) fires
PassContinue(i) ==
  /\ i \in DOMAIN passes
  /\ passes[i].pc = "wait"
  /\ StartPass(SyncGuard(isOnline, isSyncing), RemoveAt(passes, i))
  /\ Notify(isSyncing' # isSyncing,
            StatusEvent(isOnline, pendingSyncCount, TRUE, lastSyncTime))
  /\ UNCHANGED <<isOnline, pendingSyncCount, lastSyncTime, listeners, queue,
                 now, remoteOk, calls, refreshFailed>>

\* addSyncStatusListener: push, then the callback gets the current status
addSyncStatusListener(l) ==
  /\ l \notin Range(listeners)
  /\ listeners' = Append(listeners, l)
  /\ lastSeen' = [lastSeen EXCEPT ![l] = Current]
  /\ UNCHANGED <<isOnline, isSyncing, pendingSyncCount, lastSyncTime, queue,
                 now, remoteOk, passes, calls, refreshFailed, lastNotify>>

\* the function addSyncStatusListener returned is called; lastSeen keeps the
\* snapshots of the registered callbacks only
unsubscribe(l) ==
  /\ l \in Range(listeners)
  /\ listeners' = SelectSeq(listeners, LAMBDA x : x # l)
  /\ lastSeen' = [lastSeen EXCEPT ![l] = NoEvent]
  /\ UNCHANGED <<isOnline, isSyncing, pendingSyncCount, lastSyncTime, queue,
                 now, remoteOk, passes, calls, refreshFailed, lastNotify>>

\* ------------------------------------------------------------------------
\* ProcoreAPI as its constructor leaves it
\* ------------------------------------------------------------------------
Reqs == 1..MaxReq

Fetches == 1..MaxFetch

PipelineRest ==
  /\ accessToken = 0
  /\ tokenExpired = FALSE
  /\ refreshInProgress = FALSE
  /\ lastRefreshAttempt = 0 - RateLimit
  /\ hasCallback = TRUE
  /\ rpc = [r \in Reqs |-> "none"]
  /\ rretry = [r \in Reqs |-> FALSE]
  /\ fpc = [f \in Fetches |-> "idle"]
  /\ ptime = 0
  /\ refreshCalls = 0

BreakerRest ==
  /\ useSyncToSupabase = TRUE
  /\ reenable = {}
  /\ bpc = [f \in Fetches |-> "idle"]
  /\ minutes = 0
  /\ lastRls = -1
  /\ breach = FALSE

\* ------------------------------------------------------------------------
\* Specifications of OfflineService
\* ------------------------------------------------------------------------
\* nothing has been handed out, stored or observed yet
Absent == [stored |-> FALSE, local |-> "none", sp |-> FALSE]

NoWrite == [act |-> "none", ent |-> "none"]

NotYet == [act |-> "none", ent |-> "none", outcome |-> "none",
           queued |-> FALSE]

\* AuthService as the page load leaves it: no token request, a stored
\* token set that isAuthenticated no longer accepts
NoTokens == [held |-> FALSE, grant |-> 0, fresh |-> FALSE]

Resting == [kind |-> "none", pc |-> "idle", ok |-> FALSE, grant |-> 0,
            ret |-> "none"]

AuthRest ==
  /\ tokenRequestInProgress = FALSE
  /\ stored = [held |-> TRUE, grant |-> 0, fresh |-> FALSE]
  /\ apc = [c \in 1..MaxAuthCalls |-> Resting]
  /\ granted = 0
  /\ lastServed = [call |-> 0, kind |-> "none", ok |-> FALSE, grant |-> 0]

\* getAllInteractions before its first call: nothing fetched, an empty
\* mirror
NotCalled == [pc |-> "idle", found |-> FALSE, sync |-> FALSE,
              late |-> FALSE, got |-> "none"]

NoMirrorWrite == [by |-> 0, found |-> FALSE, late |-> FALSE]

ReadRest ==
  /\ gpc = [f \in 1..MaxFetch |-> NotCalled]
  /\ rows = FALSE
  /\ wrote = NoMirrorWrite

ExtraRest ==
  /\ AuthRest
  /\ ReadRest
  /\ handles = {}
  /\ resets = {}
  /\ mirror = [e \in Entities |-> Absent]
  /\ wpc = NoWrite
  /\ lastWrite = NotYet
  /\ tombs = {}
  /\ denied = {}
  /\ carried = [r \in 1..MaxReq |-> "nothing"]
  /\ lastCall = Stale
  /\ tooSoon = FALSE
  /\ answered = [r \in 1..MaxReq |-> 0]
  /\ mirrorToken = FALSE
  /\ mupd = [pc |-> "idle", sent |-> 0, rls |-> FALSE, out |-> "none"]
  /\ escaped = FALSE
  /\ lastFault = "none"
  /\ tried = <<>>
  /\ manualResult = [ret |-> FALSE, ran |-> FALSE]
  /\ lastSwitch = "none"

NoCalls == [k \in CallKinds |-> 0]

\* the service as its constructor leaves it: navigator.onLine is read once,
\* the queue table is empty, nobody has subscribed
OfflineInit ==
  /\ isOnline \in BOOLEAN
  /\ isSyncing = FALSE
  /\ pendingSyncCount = 0
  /\ lastSyncTime = 0
  /\ listeners = <<>>
  /\ queue = <<>>
  /\ now = 0
  /\ remoteOk = FALSE
  /\ lastSeen = [l \in Listeners |-> NoEvent]
  /\ passes = <<>>
  /\ calls = NoCalls
  /\ refreshFailed = FALSE
  /\ lastNotify = [targets |-> <<>>, invoked |-> <<>>, threw |-> {}]
  /\ attempts = <<>>
  /\ acked = {}

\* local writes of one kind: the scheduler never reads a row's entity or action
PlainWrites == {<<"update", "A">>}

AllWrites == OpActions \X Entities

Enqueue(W, Adv) ==
  \E w \in W, adv \in Adv, err \in BOOLEAN :
    queueOperation(w[1], w[2], adv, err)

Retry == \E id \in Ids, err \in BOOLEAN : retryFailedOperation(id, err)

Refreshed == \E kind \in CallKinds, err \in BOOLEAN : AfterRefresh(kind, err)

Selected == \E i \in DOMAIN passes, err \in BOOLEAN : PassSelect(i, err)

Delivered == \E i \in DOMAIN passes, ok \in BOOLEAN : PassDeliver(i, ok)

Marked == \E i \in DOMAIN passes : PassMark(i)

Counted == \E i \in DOMAIN passes, err \in BOOLEAN : PassCount(i, err)

Continued == \E i \in DOMAIN passes : PassContinue(i)

Init == OfflineInit /\ PipelineRest /\ BreakerRest /\ ExtraRest

\* every trigger of a pass, interleaved at every await
Next ==
  \/ handleConnectionChange /\ UNCHANGED rest
  \/ TimerTick /\ UNCHANGED rest
  \/ Enqueue(PlainWrites, {1}) /\ UNCHANGED rest
  \/ Retry /\ UNCHANGED rest
  \/ manualSync /\ UNCHANGED rest
  \/ Refreshed /\ UNCHANGED rest
  \/ Selected /\ UNCHANGED rest
  \/ Delivered /\ UNCHANGED rest
  \/ Marked /\ UNCHANGED rest
  \/ Counted /\ UNCHANGED rest

vars == <<ovars, hvars, pvars, bvars, xvars>>

Spec == Init /\ [][Next]_vars

\* ---- history recorders ---------------------------------------------------
\* a stored row starts a delivery budget
NewRow == IF Len(queue') > Len(queue) THEN Append(attempts, 0) ELSE attempts

\* retryFailedOperation applied to row id: a failed row starts a new budget
Reset(id) ==
  IF queue' = queue /\ calls' = calls THEN attempts
  ELSE [attempts EXCEPT ![id] = IF queue[id].status = "failed" THEN 0
                                ELSE Stale]

\* one more delivery of row id
Attempt(id) ==
  [attempts EXCEPT ![id] = IF @ = Stale THEN Stale
                           ELSE Min(@ + 1, RetryCeiling + 1)]

\* ---- SpecRetry: Spec with the deliveries of every row counted -------------
NextRetry ==
  \/ handleConnectionChange /\ UNCHANGED rest
  \/ TimerTick /\ UNCHANGED rest
  \/ Enqueue(PlainWrites, {1}) /\ attempts' = NewRow
    /\ UNCHANGED <<acked, pvars, bvars, xvars>>
  \/ \E id \in Ids, err \in BOOLEAN :
       retryFailedOperation(id, err) /\ attempts' = Reset(id)
       /\ UNCHANGED <<acked, pvars, bvars, xvars>>
  \/ manualSync /\ UNCHANGED rest
  \/ Refreshed /\ UNCHANGED rest
  \/ Selected /\ UNCHANGED rest
  \/ \E i \in DOMAIN passes, ok \in BOOLEAN :
       PassDeliver(i, ok) /\ attempts' = Attempt(Delivering(i))
       /\ UNCHANGED <<acked, pvars, bvars, xvars>>
  \/ Marked /\ UNCHANGED rest
  \/ Counted /\ UNCHANGED rest

SpecRetry == Init /\ [][NextRetry]_vars

\* ---- SpecOrder: writes of every kind, acknowledged deliveries recorded ----
NextOrder ==
  \/ handleConnectionChange /\ UNCHANGED rest
  \/ Enqueue(AllWrites, {0, 1}) /\ UNCHANGED rest
  \/ Refreshed /\ UNCHANGED rest
  \/ Selected /\ UNCHANGED rest
  \/ \E i \in DOMAIN passes, ok \in BOOLEAN :
       PassDeliver(i, ok)
       /\ acked' = (IF ok THEN acked \cup {Delivering(i)} ELSE acked)
       /\ UNCHANGED <<attempts, pvars, bvars, xvars>>
  \/ Marked /\ UNCHANGED rest
  \/ Counted /\ UNCHANGED rest

SpecOrder == Init /\ [][NextOrder]_vars

\* ---- SpecDrain: n rows queued while offline, a remote that accepts every
\* ---- delivery, a store that answers every query, and no timer tick --------
DrainRows(n) ==
  [i \in 1..n |-> [ent |-> "A", act |-> "update",
                   resource |-> "interaction", ts |-> i,
                   status |-> "pending", rc |-> 0]]

InitDrain ==
  \E n \in 1..MaxPending :
    /\ isOnline = FALSE
    /\ isSyncing = FALSE
    /\ pendingSyncCount = n
    /\ lastSyncTime = 0
    /\ listeners = <<>>
    /\ queue = DrainRows(n)
    /\ now = n
    /\ remoteOk = TRUE
    /\ lastSeen = [l \in Listeners |-> NoEvent]
    /\ passes = <<>>
    /\ calls = NoCalls
    /\ refreshFailed = FALSE
    /\ lastNotify = [targets |-> <<>>, invoked |-> <<>>, threw |-> {}]
    /\ attempts = <<>>
    /\ acked = {}
    /\ PipelineRest /\ BreakerRest /\ ExtraRest

NextDrain ==
  \/ handleConnectionChange /\ UNCHANGED rest
  \/ (\E i \in DOMAIN passes : PassSelect(i, FALSE)) /\ UNCHANGED rest
  \/ Delivered /\ UNCHANGED rest
  \/ Marked /\ UNCHANGED rest
  \/ (\E i \in DOMAIN passes : PassCount(i, FALSE)) /\ UNCHANGED rest
  \/ Continued /\ UNCHANGED rest

SpecDrain == InitDrain /\ [][NextDrain]_vars

\* ---- SpecNotify: listeners subscribe, unsubscribe and throw ----------------
NextNotify ==
  \/ (\E l \in Listeners : addSyncStatusListener(l)) /\ UNCHANGED rest
  \/ (\E l \in Listeners : unsubscribe(l)) /\ UNCHANGED rest
  \/ handleConnectionChange /\ UNCHANGED rest
  \/ Enqueue(PlainWrites, {1}) /\ UNCHANGED rest
  \/ Refreshed /\ UNCHANGED rest
  \/ Selected /\ UNCHANGED rest
  \/ Delivered /\ UNCHANGED rest
  \/ Marked /\ UNCHANGED rest
  \/ Counted /\ UNCHANGED rest

SpecNotify == Init /\ [][NextNotify]_vars

\* ------------------------------------------------------------------------
\* Properties of OfflineService
\* ------------------------------------------------------------------------
\* no handler is between two awaits and no timer of a pass is armed
Quiescent == passes = <<>> /\ calls = NoCalls

\* C1: after offline -> online with n pending rows whose deliveries all
\* succeed, the pass started by the connectivity handler and the passes it
\* schedules drain the queue with no timer tick: once the service is online
\* and nothing more is running or scheduled, no row is pending and
\* pendingCount is 0. Under SpecDrain, for n = 1 .. MaxPending.
C1_DrainsWithoutTimer ==
  (isOnline /\ Quiescent) =>
    (PendingIds(queue) = {} /\ pendingSyncCount = 0)

\* the row is between its delivery and its status update in some pass
InMark(id) ==
  \E i \in DOMAIN passes : passes[i].pc = "mark" /\ Delivering(i) = id

C3_OnePassAtATime == Cardinality(Running) <= 1

\* C3 witness: manualSync passed its own test of isSyncing and awaits the
\* count while a pass started by another trigger is running
C3_Witness ==
  Cardinality(Running) = 1 /\ calls["manual"] > 0 /\ isOnline /\ isSyncing

\* C4: an update or delete of an entity is acknowledged by the remote only
\* after the create of that entity enqueued before it has been acknowledged
C4_CreateBeforeUpdate ==
  \A c \in Ids, u \in Ids :
    ( /\ c < u
      /\ queue[c].ent = queue[u].ent
      /\ queue[c].act = "create"
      /\ queue[u].act \in {"update", "delete"}
      /\ u \in acked ) => c \in acked

\* C5: the batch a pass fetches is the oldest (at most BatchSize) pending
\* rows by timestamp, rows of equal timestamp in insertion order
C5_BatchIsFifo ==
  [][\A i \in DOMAIN passes :
       ( /\ passes[i].pc = "select"
         /\ i \in DOMAIN passes'
         /\ passes'[i].pc = "deliver" ) =>
         BatchIds(passes'[i]) =
           FifoBatch(queue, PendingIds(queue), BatchSize)]_vars

\* C6: at rest, with the last count query answered, pendingCount counts
\* every row that is not synced: a delivered row is not counted, a row whose
\* delivery failed is counted, also once it is in status failed
C6_FailedStillCounted ==
  (Quiescent /\ ~refreshFailed) =>
    pendingSyncCount = Cardinality({i \in Ids : queue[i].status # "synced"})

\* C6 witness: online, at rest, one row synced and one failed, count 0
C6_Witness ==
  /\ Quiescent /\ ~refreshFailed /\ isOnline
  /\ \E i \in Ids, j \in Ids :
       queue[i].status = "synced" /\ queue[j].status = "failed"
  /\ pendingSyncCount = 0

\* C10: a notification invokes every registered listener once, in order,
\* whichever of them throw
C10_EveryListenerNotified == lastNotify.invoked = lastNotify.targets

\* C10 witness: two listeners, the first one threw
C10_Witness ==
  /\ Len(lastNotify.targets) = 2
  /\ lastNotify.targets[1] \in lastNotify.threw
  /\ lastNotify.targets[2] \notin lastNotify.threw

\* ------------------------------------------------------------------------
\* ProcoreAPI: token-guarded request pipeline
\* ------------------------------------------------------------------------
\* what tokenRefreshCallback may settle with: a token that differs from the
\* stored one, the stored one again, or a rejection
Settlements == {"new", "same", "fail"}

RefreshResults ==
  (IF accessToken < MaxTok THEN {"new"} ELSE {}) \cup {"same", "fail"}

NewToken(res) == IF res = "new" THEN accessToken + 1 ELSE accessToken

\* isTokenValid: the token is present and not within 30 s of its expiry
isTokenValid == ~tokenExpired

\* updateToken(newToken): the token is stored, the expiry moved one hour on
updateToken(tok) ==
  /\ accessToken' = tok
  /\ tokenExpired' = FALSE

\* the pre-flight test without its look at refreshInProgress
MayRefreshPreNoFlag == hasCallback

\* if (this.tokenRefreshCallback && !this.refreshInProgress), before a request
MayRefreshPre == hasCallback /\ ~refreshInProgress

\* if (statusCode === 401 && this.tokenRefreshCallback &&
\*     !originalRequest._retry && !this.refreshInProgress)
MayRefreshPost(r) == hasCallback /\ ~rretry[r] /\ ~refreshInProgress

\* if (this.tokenRefreshCallback && !this.refreshInProgress), in attemptFetch
MayRefreshFetch == hasCallback /\ ~refreshInProgress

\* the requests and fetches that await tokenRefreshCallback
InFlight ==
  {<<"request", r>> : r \in {q \in Reqs : rpc[q] \in {"preRefresh",
                                                      "postRefresh"}}}
    \cup {<<"fetch", f>> : f \in {g \in Fetches : fpc[g] = "fetchRefresh"}}

\* history: tokenRefreshCallback has been called once more
Called == refreshCalls' = Min(refreshCalls + 1, MaxReq + MaxTok + 2)

\* a request enters the request interceptor: a first send, or the resend
\* after a refresh
Send(r) ==
  /\ rpc[r] \in {"none", "resend"}
  /\ IF ~isTokenValid /\ MayRefreshPre
     THEN /\ refreshInProgress' = TRUE
          /\ rpc' = [rpc EXCEPT ![r] = "preRefresh"]
          /\ Called
     ELSE /\ rpc' = [rpc EXCEPT ![r] = "sent"]
          /\ UNCHANGED <<refreshInProgress, refreshCalls>>
  /\ UNCHANGED <<accessToken, tokenExpired, lastRefreshAttempt, hasCallback,
                 rretry, fpc, ptime>>

\* the pre-flight refresh settles, the request goes out either way
PreRefreshDone(r, res) ==
  /\ rpc[r] = "preRefresh"
  /\ res \in RefreshResults
  /\ IF res = "fail"
     THEN UNCHANGED <<accessToken, tokenExpired>>
     ELSE updateToken(NewToken(res))
  /\ refreshInProgress' = FALSE
  /\ rpc' = [rpc EXCEPT ![r] = "sent"]
  /\ UNCHANGED <<lastRefreshAttempt, hasCallback, rretry, fpc, ptime,
                 refreshCalls>>

\* the response interceptor: 200 resolves, a first 401 with nobody
\* refreshing starts the refresh, anything else is rejected
Respond(r, code) ==
  /\ rpc[r] = "sent"
  /\ IF code = 401 /\ MayRefreshPost(r)
     THEN /\ rretry' = [rretry EXCEPT ![r] = TRUE]
          /\ refreshInProgress' = TRUE
          /\ IF ptime - lastRefreshAttempt < RateLimit
             THEN /\ rpc' = [rpc EXCEPT ![r] = "rateWait"]
                  /\ UNCHANGED <<lastRefreshAttempt, refreshCalls>>
             ELSE /\ lastRefreshAttempt' = ptime
                  /\ rpc' = [rpc EXCEPT ![r] = "postRefresh"]
                  /\ Called
     ELSE /\ rpc' = [rpc EXCEPT ![r] = IF code = 200 THEN "done"
                                       ELSE "failed"]
          /\ UNCHANGED <<rretry, refreshInProgress, lastRefreshAttempt,
                         refreshCalls>>
  /\ UNCHANGED <<accessToken, tokenExpired, hasCallback, fpc, ptime>>

\* the rate-limit sleep of the response interceptor is over
RateWaitDone(r) ==
  /\ rpc[r] = "rateWait"
  /\ ptime >= lastRefreshAttempt + RateLimit
  /\ lastRefreshAttempt' = ptime
  /\ rpc' = [rpc EXCEPT ![r] = "postRefresh"]
  /\ Called
  /\ UNCHANGED <<accessToken, tokenExpired, refreshInProgress, hasCallback,
                 rretry, fpc, ptime>>

\* the refresh after a 401 settles: a new token resends the request, the
\* same token or a rejection rejects it
PostRefreshDone(r, res) ==
  /\ rpc[r] = "postRefresh"
  /\ res \in RefreshResults
  /\ IF res = "new"
     THEN /\ updateToken(NewToken(res))
          /\ rpc' = [rpc EXCEPT ![r] = "resend"]
     ELSE /\ rpc' = [rpc EXCEPT ![r] = "failed"]
          /\ UNCHANGED <<accessToken, tokenExpired>>
  /\ refreshInProgress' = FALSE
  /\ UNCHANGED <<lastRefreshAttempt, hasCallback, rretry, fpc, ptime,
                 refreshCalls>>

\* attemptFetch of fetchFromProcoreOnly finds the token invalid
FetchStart(f) ==
  /\ fpc[f] = "idle"
  /\ ~isTokenValid
  /\ MayRefreshFetch
  /\ refreshInProgress' = TRUE
  /\ fpc' = [fpc EXCEPT ![f] = "fetchRefresh"]
  /\ Called
  /\ UNCHANGED <<accessToken, tokenExpired, lastRefreshAttempt, hasCallback,
                 rpc, rretry, ptime>>

\* its refresh settles
FetchRefreshDone(f, res) ==
  /\ fpc[f] = "fetchRefresh"
  /\ res \in RefreshResults
  /\ IF res = "fail"
     THEN UNCHANGED <<accessToken, tokenExpired>>
     ELSE updateToken(NewToken(res))
  /\ refreshInProgress' = FALSE
  /\ fpc' = [fpc EXCEPT ![f] = "idle"]
  /\ UNCHANGED <<lastRefreshAttempt, hasCallback, rpc, rretry, ptime,
                 refreshCalls>>

\* the clock comes within 30 s of tokenExpiry
TokenExpires ==
  /\ ~tokenExpired
  /\ tokenExpired' = TRUE
  /\ UNCHANGED <<accessToken, refreshInProgress, lastRefreshAttempt,
                 hasCallback, rpc, rretry, fpc, ptime, refreshCalls>>

\* one second passes
Second ==
  /\ ptime < MaxTime
  /\ ptime' = ptime + 1
  /\ UNCHANGED <<accessToken, tokenExpired, refreshInProgress,
                 lastRefreshAttempt, hasCallback, rpc, rretry, fpc,
                 refreshCalls>>

StatusCodes == {200, 401, 403}

\* what a step of the request pipeline leaves alone
beside == <<ovars, hvars, bvars, xvars>>

\* ---- SpecPipeline: requests, fetches and expiry in every interleaving -----
NextPipeline ==
  \/ (\E r \in Reqs : Send(r)) /\ UNCHANGED beside
  \/ (\E r \in Reqs, res \in Settlements : PreRefreshDone(r, res))
       /\ UNCHANGED beside
  \/ (\E r \in Reqs, code \in StatusCodes : Respond(r, code))
       /\ UNCHANGED beside
  \/ (\E r \in Reqs : RateWaitDone(r)) /\ UNCHANGED beside
  \/ (\E r \in Reqs, res \in Settlements : PostRefreshDone(r, res))
       /\ UNCHANGED beside
  \/ (\E f \in Fetches : FetchStart(f)) /\ UNCHANGED beside
  \/ (\E f \in Fetches, res \in Settlements : FetchRefreshDone(f, res))
       /\ UNCHANGED beside
  \/ TokenExpires /\ UNCHANGED beside
  \/ Second /\ UNCHANGED beside

SpecPipeline == Init /\ [][NextPipeline]_vars

\* C7: at most one call of tokenRefreshCallback is awaited at any time,
\* whichever of the request interceptor, the response interceptor and
\* fetchFromProcoreOnly made it
C7_SingleFlightRefresh ==
  /\ Cardinality(InFlight) <= 1
  /\ (InFlight # {}) => refreshInProgress

\* a request is refreshing ahead of its send while another one, answered
\* 401, was rejected without a refresh of its own and a fetch stands by
C7_Witness ==
  \E r, q \in Reqs :
    /\ rpc[r] = "preRefresh"
    /\ rpc[q] = "failed" /\ ~rretry[q]
    /\ tokenExpired

\* ---- SpecExpired: N requests are out with a credential the server -------
\* ---- no longer accepts --------------------------------------------------
InitExpired ==
  /\ OfflineInit /\ BreakerRest /\ ExtraRest
  /\ accessToken = 0
  /\ tokenExpired = FALSE
  /\ refreshInProgress = FALSE
  /\ lastRefreshAttempt = 0 - RateLimit
  /\ hasCallback = TRUE
  /\ \E n \in 1..MaxReq :
       rpc = [r \in Reqs |-> IF r <= n THEN "sent" ELSE "done"]
  /\ rretry = [r \in Reqs |-> FALSE]
  /\ fpc = [f \in Fetches |-> "idle"]
  /\ ptime = 0
  /\ refreshCalls = 0

\* the server's answer: 401 to what was issued with the expired
\* credential, 200 to what was sent again with a fresh one
Answer(r) == IF rretry[r] THEN 200 ELSE 401

NextExpired ==
  \/ (\E r \in Reqs : Respond(r, Answer(r))) /\ UNCHANGED beside
  \/ (\E r \in Reqs : RateWaitDone(r)) /\ UNCHANGED beside
  \/ (\E r \in Reqs, res \in Settlements : PostRefreshDone(r, res))
       /\ UNCHANGED beside
  \/ (\E r \in Reqs : Send(r)) /\ UNCHANGED beside
  \/ Second /\ UNCHANGED beside

SpecExpired == InitExpired /\ [][NextExpired]_vars

Settled == \A r \in Reqs : rpc[r] \in {"done", "failed"}

\* C8: N requests issued together all fail with 401: tokenRefreshCallback
\* is called exactly once in total, whenever the failures arrive
C8_ExactlyOneRefresh == Settled => refreshCalls = 1

\* ------------------------------------------------------------------------
\* ProcoreAPI: the switch on writes to the Supabase mirror
\* ------------------------------------------------------------------------
SyncResults == {"ok", "rls", "other"}

\* history: the latest RLS error is less than the cooldown old
InCooldown == lastRls >= 0 /\ minutes < lastRls + Cooldown

\* history: a write to the mirror is attempted now
Attempted == breach' = (breach \/ InCooldown)

\* fetchFromProcoreOnly reaches the mirror: if (... && this.useSyncToSupabase
\* && ...) await this.supabaseService.syncInteractions(...)
MirrorSyncStart(f) ==
  /\ bpc[f] = "idle"
  /\ useSyncToSupabase
  /\ bpc' = [bpc EXCEPT ![f] = "mirror"]
  /\ Attempted
  /\ UNCHANGED <<useSyncToSupabase, reenable, minutes, lastRls>>

\* syncInteractions settles: on rlsError the switch goes off and a timer
\* is armed that turns it on again
MirrorSyncDone(f, res) ==
  /\ bpc[f] = "mirror"
  /\ bpc' = [bpc EXCEPT ![f] = "idle"]
  /\ IF res = "rls"
     THEN /\ useSyncToSupabase' = FALSE
          /\ reenable' = reenable \cup {minutes + Cooldown}
          /\ lastRls' = minutes
     ELSE UNCHANGED <<useSyncToSupabase, reenable, lastRls>>
  /\ UNCHANGED <<minutes, breach>>

\* setTimeout(() => { this.useSyncToSupabase = true }, 5 * 60 * 1000) fires
ReEnable ==
  /\ \E d \in reenable :
       /\ d <= minutes
       /\ reenable' = reenable \ {d}
  /\ useSyncToSupabase' = TRUE
  /\ UNCHANGED <<bpc, minutes, lastRls, breach>>

\* setSupabaseSync(enable)
setSupabaseSync(enable) ==
  /\ useSyncToSupabase' = enable
  /\ UNCHANGED <<reenable, bpc, minutes, lastRls, breach>>

\* updateInteraction: if (this.useSyncToSupabase) the mirror is written,
\* whatever comes back is only logged
updateInteraction ==
  /\ useSyncToSupabase
  /\ Attempted
  /\ UNCHANGED <<useSyncToSupabase, reenable, bpc, minutes, lastRls>>

\* one minute passes; a timer that is due fires first
Minute ==
  /\ minutes < MaxMinutes
  /\ \A d \in reenable : d > minutes
  /\ minutes' = minutes + 1
  /\ UNCHANGED <<useSyncToSupabase, reenable, bpc, lastRls, breach>>

\* what a step of the mirror switch leaves alone
aside == <<ovars, hvars, pvars, xvars>>

\* ---- SpecBreaker: fetches, updates, RLS errors and the switch -----------
NextBreaker ==
  \/ (\E f \in Fetches : MirrorSyncStart(f)) /\ UNCHANGED aside
  \/ (\E f \in Fetches, res \in SyncResults : MirrorSyncDone(f, res))
       /\ UNCHANGED aside
  \/ ReEnable /\ UNCHANGED aside
  \/ (\E enable \in BOOLEAN : setSupabaseSync(enable)) /\ UNCHANGED aside
  \/ updateInteraction /\ UNCHANGED aside
  \/ Minute /\ UNCHANGED aside

SpecBreaker == Init /\ [][NextBreaker]_vars

\* C9: after an RLS error no write to the mirror is attempted until the
\* five minutes counted from that error are over
C9_NoAttemptInCooldown == ~breach

\* ------------------------------------------------------------------------
\* Subscribers of the status bus
\* ------------------------------------------------------------------------
\* addSyncStatusListener as its caller sees it: the first call of the
\* callback is made outside any try / catch, so when the callback throws the
\* exception leaves addSyncStatusListener after the push and the unsubscribe
\* function is never returned
Subscribe(l, throws) ==
  /\ addSyncStatusListener(l)
  /\ handles' = IF throws THEN handles ELSE handles \cup {l}

\* a subscriber calls the unsubscribe function it was given
Unsubscribe(l) ==
  /\ l \in handles
  /\ unsubscribe(l)
  /\ handles' = handles \ {l}

\* what a step of a subscriber leaves alone
apart == <<hvars, pvars, bvars, resets, wvars, denied, tvars, mvars, avars,
    gvars, yvars>>

\* ---- SpecSubscribe: subscribers come, throw and go while the service, its
\* ---- queue empty, goes on and off line and runs its passes ---------------
NextSubscribe ==
  \/ (\E l \in Listeners, throws \in BOOLEAN : Subscribe(l, throws))
       /\ UNCHANGED apart
  \/ (\E l \in Listeners : Unsubscribe(l)) /\ UNCHANGED apart
  \/ handleConnectionChange /\ UNCHANGED rest
  \/ TimerTick /\ UNCHANGED rest
  \/ Refreshed /\ UNCHANGED rest
  \/ Selected /\ UNCHANGED rest

SpecSubscribe == Init /\ [][NextSubscribe]_vars

\* C11: addSyncStatusListener gives the new listener the current snapshot
\* and returns its unsubscribe function; once that function has been called
\* the listener is given nothing more, while every notification still
\* reaches all the listeners that are registered
C11_SubscribeAndUnsubscribe ==
  [][/\ \A l \in Listeners :
          (l \notin Range(listeners) /\ l \in Range(listeners')) =>
            (lastSeen'[l] = Current /\ l \in handles')
     /\ \A l \in Listeners :
          (l \in handles /\ l \notin handles') => l \notin Range(listeners')
     /\ \A l \in Listeners :
          (l \notin Range(listeners) /\ l \notin Range(listeners')) =>
            lastSeen'[l] = lastSeen[l]
     /\ (lastNotify' # lastNotify) =>
          Range(lastNotify'.invoked) = Range(listeners)]_vars

\* a listener whose first call threw is registered, nobody holds its
\* unsubscribe function, and a later notification reached it
C11_Witness ==
  \E l \in Range(listeners) :
    /\ l \notin handles
    /\ l \in Range(lastNotify.invoked)

\* ------------------------------------------------------------------------
\* retryFailedOperation on a failed row
\* ------------------------------------------------------------------------
\* ---- SpecReset: a row that used up its budget is in the queue, failed ----
FailedRow ==
  [ent |-> "A", act |-> "update", resource |-> "interaction", ts |-> 1,
   status |-> "failed", rc |-> RetryCeiling]

InitReset ==
  /\ isOnline \in BOOLEAN
  /\ isSyncing = FALSE
  /\ pendingSyncCount = 0
  /\ lastSyncTime = 1
  /\ listeners = <<>>
  /\ queue = <<FailedRow>>
  /\ now = 1
  /\ remoteOk = FALSE
  /\ lastSeen = [l \in Listeners |-> NoEvent]
  /\ passes = <<>>
  /\ calls = NoCalls
  /\ refreshFailed = FALSE
  /\ lastNotify = [targets |-> <<>>, invoked |-> <<>>, threw |-> {}]
  /\ attempts = <<RetryCeiling>>
  /\ acked = {}
  /\ PipelineRest /\ BreakerRest /\ ExtraRest

\* retryFailedOperation took row id out of failed
WasReset(id) ==
  IF (queue' # queue \/ calls' # calls) /\ queue[id].status = "failed"
  THEN resets \cup {id} ELSE resets

\* what the steps of SpecReset that record nothing leave alone
still == <<acked, pvars, bvars, handles, wvars, denied, tvars, mvars, avars,
    gvars, yvars>>

NextReset ==
  \/ handleConnectionChange /\ UNCHANGED rest
  \/ TimerTick /\ UNCHANGED rest
  \/ \E id \in Ids, err \in BOOLEAN :
       retryFailedOperation(id, err) /\ attempts' = Reset(id)
       /\ resets' = WasReset(id) /\ UNCHANGED still
  \/ Refreshed /\ UNCHANGED rest
  \/ Selected /\ UNCHANGED rest
  \/ \E i \in DOMAIN passes, ok \in BOOLEAN :
       PassDeliver(i, ok) /\ attempts' = Attempt(Delivering(i))
       /\ UNCHANGED <<still, resets>>
  \/ Marked /\ UNCHANGED rest
  \/ Counted /\ UNCHANGED rest

SpecReset == InitReset /\ [][NextReset]_vars

LocalRecord(status) == [stored |-> TRUE, local |-> status, sp |-> TRUE]

\* _local_status written by each of the three methods
LocalStatus(act) ==
  CASE act = "create" -> "created"
    [] act = "update" -> "updated"
    [] act = "delete" -> "deleted"

\* the write to table interactions ends in `if (error) throw error`: the
\* store reports an error, or .single() of updateInteraction finds no row
MirrorThrows(act, ent, err) ==
  err \/ (act = "update" /\ ~mirror[ent].stored)

\* getInteractions: .neq('_local_status', 'deleted')
getInteractions ==
  {e \in Entities : mirror[e].stored /\ mirror[e].local # "deleted"}

\* a local write that goes on to queueOperation after an error of the store
WriteMirrorKeepsGoing(act, ent, err) ==
  /\ wpc = NoWrite
  /\ act = "create" => ~mirror[ent].stored
  /\ IF MirrorThrows(act, ent, err)
     THEN /\ lastWrite' = [act |-> act, ent |-> ent, outcome |-> "threw",
                           queued |-> FALSE]
          /\ wpc' = [act |-> act, ent |-> ent]
          /\ UNCHANGED <<mirror, tombs>>
     ELSE /\ mirror' = IF act = "delete" /\ ~mirror[ent].stored THEN mirror
                       ELSE [mirror EXCEPT ![ent] =
                               LocalRecord(LocalStatus(act))]
          /\ wpc' = [act |-> act, ent |-> ent]
          /\ tombs' = IF act = "delete" /\ mirror[ent].stored
                      THEN tombs \cup {ent} ELSE tombs
          /\ UNCHANGED lastWrite

\* a local write up to its await of queueOperation; createInteraction is
\* called with an id that is not stored yet
WriteMirror(act, ent, err) ==
  /\ wpc = NoWrite
  /\ act = "create" => ~mirror[ent].stored
  /\ IF MirrorThrows(act, ent, err)
     THEN /\ lastWrite' = [act |-> act, ent |-> ent, outcome |-> "threw",
                           queued |-> FALSE]
          /\ UNCHANGED <<mirror, wpc, tombs>>
     ELSE /\ mirror' = IF act = "delete" /\ ~mirror[ent].stored THEN mirror
                       ELSE [mirror EXCEPT ![ent] =
                               LocalRecord(LocalStatus(act))]
          /\ wpc' = [act |-> act, ent |-> ent]
          /\ tombs' = IF act = "delete" /\ mirror[ent].stored
                      THEN tombs \cup {ent} ELSE tombs
          /\ UNCHANGED lastWrite

\* await this.queueOperation(...) of a local write: its boolean result is
\* not read and the method returns to its caller
WriteQueue(adv, err) ==
  /\ wpc # NoWrite
  /\ queueOperation(wpc.act, wpc.ent, adv, err)
  /\ wpc' = NoWrite
  /\ lastWrite' = [act |-> wpc.act, ent |-> wpc.ent, outcome |-> "returned",
                   queued |-> Len(queue') > Len(queue)]
  /\ UNCHANGED <<mirror, tombs>>

\* what a local write leaves alone
clear == <<hvars, pvars, bvars, handles, resets, denied, tvars, mvars, avars,
    gvars, yvars>>

\* ---- SpecWrites: local writes on one entity while the service syncs ------
NextWrites ==
  \/ (\E act \in OpActions, err \in BOOLEAN : WriteMirror(act, "A", err))
       /\ UNCHANGED <<ovars, clear>>
  \/ (\E err \in BOOLEAN : WriteQueue(1, err)) /\ UNCHANGED clear
  \/ handleConnectionChange /\ UNCHANGED rest
  \/ Refreshed /\ UNCHANGED rest
  \/ Selected /\ UNCHANGED rest
  \/ Delivered /\ UNCHANGED rest
  \/ Marked /\ UNCHANGED rest
  \/ Counted /\ UNCHANGED rest

SpecWrites == Init /\ [][NextWrites]_vars

\* C13: a local write whose operation could not be queued does not return
\* normally to its caller
C13_UnqueuedWriteFails ==
  lastWrite.outcome = "returned" => lastWrite.queued

\* the delete of entity e has been delivered and marked synced
DeleteSynced(e) ==
  \E i \in Ids :
    queue[i].ent = e /\ queue[i].act = "delete" /\ queue[i].status = "synced"

\* C20: a record that deleteInteraction has marked stays stored and, until
\* its delete is synced, keeps _local_status deleted and _sync_pending and
\* is left out of getInteractions
C20_TombstoneKept ==
  \A e \in tombs :
    /\ mirror[e].stored
    /\ ~DeleteSynced(e) =>
         /\ mirror[e].local = "deleted"
         /\ mirror[e].sp
         /\ e \notin getInteractions

\* ------------------------------------------------------------------------
\* Deliveries by resource and by kind of failure
\* ------------------------------------------------------------------------
\* a row of sync_queue whose resource is neither interaction nor project
OtherRow ==
  [ent |-> "B", act |-> "update", resource |-> "other", ts |-> 0,
   status |-> "pending", rc |-> 0]

\* what the remote may answer to a delivery it does not accept
ErrorKinds == {"Transient", "PermissionDenied"}

\* the remote refused the delivery of row id with a permission error
Refused(id, ok, kind) ==
  IF ~ok /\ kind = "PermissionDenied" THEN denied \cup {id} ELSE denied

\* ---- SpecKinds: the queue holds a row of another resource; deliveries of -
\* ---- interactions fail for one reason or another ------------------------
InitKinds ==
  /\ isOnline \in BOOLEAN
  /\ isSyncing = FALSE
  /\ pendingSyncCount = 1
  /\ lastSyncTime = 0
  /\ listeners = <<>>
  /\ queue = <<OtherRow>>
  /\ now = 0
  /\ remoteOk = FALSE
  /\ lastSeen = [l \in Listeners |-> NoEvent]
  /\ passes = <<>>
  /\ calls = NoCalls
  /\ refreshFailed = FALSE
  /\ lastNotify = [targets |-> <<>>, invoked |-> <<>>, threw |-> {}]
  /\ attempts = <<0>>
  /\ acked = {}
  /\ PipelineRest /\ BreakerRest /\ ExtraRest

\* what the steps of SpecKinds that record nothing of theirs leave alone
quiet == <<acked, pvars, bvars, handles, resets, wvars, tvars, mvars, avars,
    gvars, yvars>>

NextKinds ==
  \/ handleConnectionChange /\ UNCHANGED rest
  \/ TimerTick /\ UNCHANGED rest
  \/ Enqueue(PlainWrites, {1}) /\ attempts' = NewRow
       /\ UNCHANGED <<quiet, denied>>
  \/ Refreshed /\ UNCHANGED rest
  \/ Selected /\ UNCHANGED rest
  \/ \E i \in DOMAIN passes, ok \in BOOLEAN, kind \in ErrorKinds :
       /\ PassDeliver(i, ok)
       /\ queue[Delivering(i)].resource = "interaction"
       /\ attempts' = Attempt(Delivering(i))
       /\ denied' = Refused(Delivering(i), ok, kind)
       /\ UNCHANGED quiet
  \/ \E i \in DOMAIN passes :
       /\ PassDeliver(i, TRUE)
       /\ queue[Delivering(i)].resource # "interaction"
       /\ attempts' = Attempt(Delivering(i))
       /\ UNCHANGED <<quiet, denied>>
  \/ Marked /\ UNCHANGED rest
  \/ Counted /\ UNCHANGED rest

SpecKinds == InitKinds /\ [][NextKinds]_vars

\* C14: a row whose resource is neither interaction nor project is never
\* marked synced, and once a pass has handled it it is failed
C14_UnknownResourceFails ==
  \A id \in Ids :
    queue[id].resource \notin {"interaction", "project"} =>
      /\ queue[id].status # "synced"
      /\ (attempts[id] >= 1 /\ ~InMark(id)) => queue[id].status = "failed"

\* C15: a row whose delivery was refused with a permission error is failed
\* as soon as the pass has recorded that delivery, and is not delivered again
C15_PermissionDeniedIsTerminal ==
  \A id \in denied :
    /\ ~InMark(id) => queue[id].status = "failed"
    /\ attempts[id] <= 1

\* ------------------------------------------------------------------------
\* ProcoreAPI: what goes out, and how often the credential is refreshed
\* ------------------------------------------------------------------------
\* the steps of the pipeline, whatever the request, the fetch, the answer
\* of the server and the outcome of a refresh
PipelineStep ==
  \/ \E r \in Reqs : Send(r)
  \/ \E r \in Reqs, res \in Settlements : PreRefreshDone(r, res)
  \/ \E r \in Reqs, code \in StatusCodes : Respond(r, code)
  \/ \E r \in Reqs : RateWaitDone(r)
  \/ \E r \in Reqs, res \in Settlements : PostRefreshDone(r, res)
  \/ \E f \in Fetches : FetchStart(f)
  \/ \E f \in Fetches, res \in Settlements : FetchRefreshDone(f, res)

\* return config: request r leaves the request interceptor with the
\* credential of that moment
Leaves(r) == rpc[r] # "sent" /\ rpc'[r] = "sent"

Carry ==
  carried' = [r \in Reqs |->
                IF Leaves(r)
                THEN IF tokenExpired' THEN "invalid" ELSE "valid"
                ELSE carried[r]]

\* what the steps of the pipeline leave alone beside the credential record
pipeOnly ==
  <<ovars, hvars, bvars, handles, resets, wvars, denied, mvars, avars,
    gvars, yvars>>

\* ---- SpecSend: the pipeline, with the credential of every send ----------
NextSend ==
  \/ (\E r \in Reqs : Send(r)) /\ Carry
       /\ UNCHANGED <<pipeOnly, lastCall, tooSoon, answered>>
  \/ (\E r \in Reqs, res \in Settlements : PreRefreshDone(r, res)) /\ Carry
       /\ UNCHANGED <<pipeOnly, lastCall, tooSoon, answered>>
  \/ (\E r \in Reqs, code \in StatusCodes : Respond(r, code))
       /\ UNCHANGED beside
  \/ (\E r \in Reqs : RateWaitDone(r)) /\ UNCHANGED beside
  \/ (\E r \in Reqs, res \in Settlements : PostRefreshDone(r, res))
       /\ UNCHANGED beside
  \/ (\E f \in Fetches : FetchStart(f)) /\ UNCHANGED beside
  \/ (\E f \in Fetches, res \in Settlements : FetchRefreshDone(f, res))
       /\ UNCHANGED beside
  \/ TokenExpires /\ UNCHANGED beside
  \/ Second /\ UNCHANGED beside

SpecSend == Init /\ [][NextSend]_vars

\* C16: every request leaves the request interceptor with a credential
\* that passes isTokenValid at that moment
C16_SendsCarryValidToken == \A r \in Reqs : carried[r] # "invalid"

\* tokenRefreshCallback is called in this step
Calls == InFlight' \ InFlight # {}

Throttle ==
  IF Calls
  THEN /\ lastCall' = ptime
       /\ tooSoon' = (tooSoon \/ (lastCall # Stale
                                  /\ ptime - lastCall < RateLimit))
  ELSE UNCHANGED <<lastCall, tooSoon>>

\* ---- SpecThrottle: the pipeline, with the times of the refresh calls ----
NextThrottle ==
  \/ PipelineStep /\ Throttle /\ UNCHANGED <<pipeOnly, carried, answered>>
  \/ TokenExpires /\ UNCHANGED beside
  \/ Second /\ UNCHANGED beside

SpecThrottle == Init /\ [][NextThrottle]_vars

\* C18: any two calls of tokenRefreshCallback, from whichever of the three
\* places, are at least five seconds apart
C18_RefreshesFiveSecondsApart == ~tooSoon

\* C17: a request rejected after a 401 had its refresh-and-retry: the
\* response interceptor has marked it _retry
C17_Every401IsRefreshedOnce == \A r \in Reqs : rpc[r] = "failed" => rretry[r]

\* ------------------------------------------------------------------------
\* Permission errors: 403 of the API, RLS denial of the mirror
\* ------------------------------------------------------------------------
\* the errors of the mirror's update: none, an RLS denial (code 42501 or
\* "permission denied"), any other
MirrorErrors == {"none", "rls", "other"}

\* initWithToken(token) stores the token
initWithToken ==
  /\ mirrorToken' = TRUE
  /\ UNCHANGED mupd

\* SupabaseService.updateInteraction sends the update
MirrorUpdateStart ==
  /\ mupd.pc = "idle"
  /\ mupd' = [pc |-> "first", sent |-> 1, rls |-> FALSE, out |-> "none"]
  /\ UNCHANGED mirrorToken

\* the update is answered: an RLS denial with a stored token runs
\* initWithToken and sends the update again, any other error returns false
MirrorUpdateAnswer(err) ==
  /\ mupd.pc = "first"
  /\ mupd' = IF err = "none"
             THEN [mupd EXCEPT !.pc = "idle", !.out = "true"]
             ELSE IF err = "rls" /\ mirrorToken
                  THEN [mupd EXCEPT !.pc = "retry", !.sent = 2,
                                    !.rls = TRUE]
                  ELSE [mupd EXCEPT !.pc = "idle", !.out = "false",
                                    !.rls = (err = "rls")]
  /\ UNCHANGED mirrorToken

\* the second update is answered
MirrorRetryAnswer(err) ==
  /\ mupd.pc = "retry"
  /\ mupd' = [mupd EXCEPT !.pc = "idle",
                          !.out = IF err = "none" THEN "true" ELSE "false"]
  /\ UNCHANGED mirrorToken

\* what the steps of the mirror's update leave alone
mirrorOnly ==
  <<ovars, hvars, pvars, bvars, handles, resets, wvars, denied, tvars, avars,
    gvars, yvars>>

\* the response interceptor has seen status code for request r
Answered(r, code) == answered' = [answered EXCEPT ![r] = code]

\* ---- SpecPermission: requests answered 200, 401 or 403, and updates of --
\* ---- the mirror answered with or without an RLS denial ------------------
NextPermission ==
  \/ (\E r \in Reqs : Send(r)) /\ UNCHANGED beside
  \/ (\E r \in Reqs, res \in Settlements : PreRefreshDone(r, res))
       /\ UNCHANGED beside
  \/ \E r \in Reqs, code \in StatusCodes :
       /\ Respond(r, code)
       /\ Answered(r, code)
       /\ UNCHANGED <<pipeOnly, carried, lastCall, tooSoon>>
  \/ (\E r \in Reqs, res \in Settlements : PostRefreshDone(r, res))
       /\ UNCHANGED beside
  \/ TokenExpires /\ UNCHANGED beside
  \/ initWithToken /\ UNCHANGED mirrorOnly
  \/ MirrorUpdateStart /\ UNCHANGED mirrorOnly
  \/ (\E err \in MirrorErrors : MirrorUpdateAnswer(err))
       /\ UNCHANGED mirrorOnly
  \/ (\E err \in MirrorErrors : MirrorRetryAnswer(err))
       /\ UNCHANGED mirrorOnly

SpecPermission == Init /\ [][NextPermission]_vars

\* C19: a request answered 403 is rejected with no refresh and no resend,
\* and an update of the mirror answered with an RLS denial is not sent a
\* second time
C19_PermissionErrorsNotRetried ==
  /\ \A r \in Reqs : answered[r] = 403 => rpc[r] = "failed"
  /\ mupd.rls => mupd.sent = 1

\* ------------------------------------------------------------------------
\* syncPendingOperations: the errors of a pass and where they are caught
\* ------------------------------------------------------------------------
\* the places of a pass that may raise an error
Sites == {"select", "deliver", "markSynced", "markFailure", "count"}

\* the try blocks without the outer one around the update of the catch branch
CaughtByInnerOnly(site) ==
  CASE site = "select" -> "outer"
    [] site \in {"deliver", "markSynced"} -> "inner"
    [] site = "markFailure" -> "none"
    [] site = "count" -> "own"

\* the catch that receives an error raised at site: `if (error) throw error`
\* of the select is inside the outer try; processOperation and the update to
\* synced are inside the try of the loop; the update of the catch branch is
\* inside the outer try only; refreshPendingCount has a try of its own
CaughtBy(site) ==
  CASE site = "select" -> "outer"
    [] site \in {"deliver", "markSynced"} -> "inner"
    [] site = "markFailure" -> "outer"
    [] site = "count" -> "own"

\* the update that records the outcome of the current row fails. Returned as
\* { error }, nobody reads it and the loop goes on; thrown, it goes to the
\* catch that encloses it: from the update to synced into the catch branch
\* of the loop, whose own update is then issued, from there to the catch of
\* the pass
PassMarkError(i, how) ==
  /\ i \in DOMAIN passes
  /\ passes[i].pc = "mark"
  /\ LET p == passes[i]
         site == IF p.res = "ok" THEN "markSynced" ELSE "markFailure"
         to == IF how = "returned" THEN "ignored" ELSE CaughtBy(site)
     IN /\ passes' =
             CASE to = "ignored" -> [passes EXCEPT ![i] = Advance(p)]
               [] to = "inner" -> [passes EXCEPT ![i].res = "error"]
               [] OTHER -> RemoveAt(passes, i)
        /\ isSyncing' = IF to = "outer" THEN FALSE ELSE isSyncing
        /\ escaped' = (escaped \/ to = "none")
        /\ Notify(to = "outer",
                  StatusEvent(isOnline, pendingSyncCount, FALSE,
                              lastSyncTime))
  /\ UNCHANGED <<isOnline, pendingSyncCount, lastSyncTime, listeners, queue,
                 now, remoteOk, calls, refreshFailed>>

\* the site of the error of this step, if it raised one
Fault(site, raised) ==
  lastFault' = IF raised THEN site ELSE lastFault

\* the site of the update a pass is awaiting
MarkSite(i) == IF passes[i].res = "ok" THEN "markSynced" ELSE "markFailure"

\* what the steps of SpecFaults that raise no error leave alone
sound ==
  <<hvars, pvars, bvars, handles, resets, wvars, denied, tvars, mvars, avars,
    gvars, tried, manualResult, lastSwitch>>

\* ---- SpecFaults: passes in which the select, a delivery, an update of ----
\* ---- a row or the count query fail ---------------------------------------
NextFaults ==
  \/ handleConnectionChange /\ UNCHANGED rest
  \/ Enqueue(PlainWrites, {1}) /\ UNCHANGED rest
  \/ Refreshed /\ UNCHANGED rest
  \/ \E i \in DOMAIN passes, err \in BOOLEAN :
       /\ PassSelect(i, err)
       /\ Fault("select", err)
       /\ escaped' = (escaped \/ (err /\ CaughtBy("select") = "none"))
       /\ UNCHANGED sound
  \/ \E i \in DOMAIN passes, ok \in BOOLEAN :
       /\ PassDeliver(i, ok)
       /\ Fault("deliver", ~ok)
       /\ escaped' = (escaped \/ (~ok /\ CaughtBy("deliver") = "none"))
       /\ UNCHANGED sound
  \/ Marked /\ UNCHANGED rest
  \/ \E i \in DOMAIN passes, how \in {"returned", "thrown"} :
       /\ PassMarkError(i, how)
       /\ Fault(MarkSite(i), TRUE)
       /\ UNCHANGED sound
  \/ \E i \in DOMAIN passes, err \in BOOLEAN :
       /\ PassCount(i, err)
       /\ Fault("count", err)
       /\ escaped' = (escaped \/ (err /\ CaughtBy("count") = "none"))
       /\ UNCHANGED sound

SpecFaults == Init /\ [][NextFaults]_vars

\* C21: no error raised in a pass leaves syncPendingOperations: whatever
\* fails, the select, a delivery, the update of a row or the count, the
\* promise of the pass is never rejected
C21_PassNeverRejects == ~escaped

\* C21 witness: the update of the catch branch threw, the catch of the pass
\* ended the pass and cleared the flag
C21_Witness ==
  /\ lastFault = "markFailure"
  /\ passes = <<>>
  /\ ~isSyncing
  /\ \E id \in Ids : queue[id].status = "pending"

\* ------------------------------------------------------------------------
\* The flag and the continuation of a full batch
\* ------------------------------------------------------------------------
\* ---- LiveDrain: SpecDrain in which every await of a pass returns and ----
\* ---- every armed timer fires ---------------------------------------------
LiveDrain ==
  /\ SpecDrain
  /\ WF_vars((\E i \in DOMAIN passes : PassSelect(i, FALSE))
               /\ UNCHANGED rest)
  /\ WF_vars(Delivered /\ UNCHANGED rest)
  /\ WF_vars(Marked /\ UNCHANGED rest)
  /\ WF_vars((\E i \in DOMAIN passes : PassCount(i, FALSE))
               /\ UNCHANGED rest)
  /\ WF_vars(Continued /\ UNCHANGED rest)

\* C22: whenever isSyncing is true it becomes false again, every call of
\* the pass returning in finite time, for every size of the queue
C22_FlagEventuallyCleared == isSyncing ~> ~isSyncing

\* C23: when the timer armed after a full batch fires, a pass starts: it
\* goes on to fetch the next batch
C23_ContinuationRuns ==
  [][\A i \in DOMAIN passes :
       (passes[i].pc = "wait" /\ passes' # passes) =>
         \E j \in DOMAIN passes' : passes'[j].pc = "select"]_vars

\* ------------------------------------------------------------------------
\* One pass over its batch
\* ------------------------------------------------------------------------
\* the rows of the batch whose delivery has settled
Settling(p) ==
  CASE p.pc = "deliver" -> p.idx - 1
    [] p.pc = "mark" -> p.idx
    [] p.pc = "count" -> Len(p.batch)
    [] OTHER -> 0

\* the rows of the batch whose status update has been applied
Recorded(p) ==
  CASE p.pc \in {"deliver", "mark"} -> p.idx - 1
    [] p.pc = "count" -> Len(p.batch)
    [] OTHER -> 0

\* what the steps of SpecBatch leave alone beside the record of the pass
batchOnly ==
  <<hvars, pvars, bvars, handles, resets, wvars, denied, tvars, mvars, avars,
    gvars, escaped, lastFault, manualResult, lastSwitch>>

\* ---- SpecBatch: passes over batches of one or two rows, every delivery ---
\* ---- accepted or refused, the store applying every update -----------------
NextBatch ==
  \/ handleConnectionChange /\ UNCHANGED rest
  \/ Enqueue(PlainWrites, {1}) /\ UNCHANGED rest
  \/ Refreshed /\ UNCHANGED rest
  \/ Selected /\ tried' = <<>> /\ UNCHANGED batchOnly
  \/ \E i \in DOMAIN passes, ok \in BOOLEAN :
       /\ PassDeliver(i, ok)
       /\ tried' = Append(tried, [id |-> Delivering(i), ok |-> ok])
       /\ UNCHANGED batchOnly
  \/ Marked /\ UNCHANGED rest
  \/ Counted /\ UNCHANGED rest

SpecBatch == Init /\ [][NextBatch]_vars

C25_NoOpWhenNothingToDo ==
  [][/\ Len(passes') > Len(passes) => (isOnline' /\ ~isSyncing)
     /\ \A i \in DOMAIN passes :
          ( /\ passes[i].pc = "select"
            /\ PendingIds(queue) = {}
            /\ passes' = RemoveAt(passes, i) ) =>
            /\ queue' = queue
            /\ pendingSyncCount' = pendingSyncCount
            /\ lastSyncTime' = lastSyncTime]_vars

\* C26: a timer tick that finds the service online and idle with a pending
\* row in the queue starts a pass
C26_TickStartsPass ==
  [][( /\ calls'["tick"] > calls["tick"]
       /\ isOnline /\ ~isSyncing
       /\ PendingIds(queue) # {} ) => Len(passes') > Len(passes)]_vars

\* C26 witness: at rest, online and idle, a row is pending and the count
\* the next tick will read is 0
C26_Witness ==
  /\ Quiescent /\ isOnline /\ ~isSyncing
  /\ PendingIds(queue) # {}
  /\ pendingSyncCount = 0

\* C27: the step from online to offline writes isOnline and notifies every
\* listener of the new status; it starts no pass, ends none, and leaves the
\* queue, the flag, the count and lastSyncTime as they were
C27_GoingOfflineOnlyNotifies ==
  [][(isOnline /\ ~isOnline') =>
       /\ passes' = passes
       /\ queue' = queue
       /\ isSyncing' = isSyncing
       /\ pendingSyncCount' = pendingSyncCount
       /\ lastSyncTime' = lastSyncTime
       /\ calls' = calls
       /\ lastNotify'.invoked = listeners
       /\ \A l \in Range(listeners) :
            lastSeen'[l] = StatusEvent(FALSE, pendingSyncCount, isSyncing,
                                       lastSyncTime)]_vars

\* C27 witness: the service is offline while a pass is between a delivery
\* and its status update, and a listener holds that status
C27_Witness ==
  /\ ~isOnline /\ isSyncing
  /\ \E i \in DOMAIN passes : passes[i].pc = "mark"
  /\ \E l \in Range(listeners) : lastSeen[l] = Current

\* C28: a request that enters the request interceptor with an invalid
\* credential while a refresh is awaited is not sent in that step: it waits
\* for the refresh
C28_WaitsForRefreshInProgress ==
  [][\A r \in Reqs :
       ( /\ rpc[r] \in {"none", "resend"}
         /\ ~isTokenValid
         /\ refreshInProgress ) => rpc'[r] # "sent"]_vars

\* C29: a local write whose write to table interactions fails throws and
\* stops there: the mirror, the queue, the passes and the pending calls are
\* as before and no queueOperation follows; and a row enters the queue only
\* from a local write whose mirror write has been applied
C29_MirrorFirstThenQueue ==
  [][/\ (lastWrite' # lastWrite /\ lastWrite'.outcome = "threw") =>
          /\ queue' = queue
          /\ passes' = passes
          /\ calls' = calls
          /\ isSyncing' = isSyncing
          /\ mirror' = mirror
          /\ wpc' = NoWrite
     /\ Len(queue') > Len(queue) =>
          /\ wpc # NoWrite
          /\ queue'[Len(queue')].act = wpc.act
          /\ queue'[Len(queue')].ent = wpc.ent
          /\ (mirror[wpc.ent].stored =>
                /\ mirror[wpc.ent].sp
                /\ mirror[wpc.ent].local = LocalStatus(wpc.act))]_vars

\* C29 witness: a create was stored and queued, a later write threw and
\* left the queue with that one row
C29_Witness ==
  /\ lastWrite.outcome = "threw"
  /\ wpc = NoWrite
  /\ mirror["A"].stored
  /\ Len(queue) = 1
  /\ queue[1].act = "create"

\* ------------------------------------------------------------------------
\* The status the listeners hold
\* ------------------------------------------------------------------------
\* ---- SpecHeard: SpecDrain with a subscriber registered before the ------
\* ---- service goes online -------------------------------------------------
InitHeard ==
  \E n \in 1..MaxPending :
    /\ isOnline = FALSE
    /\ isSyncing = FALSE
    /\ pendingSyncCount = n
    /\ lastSyncTime = 0
    /\ listeners = <<"l1">>
    /\ queue = DrainRows(n)
    /\ now = n
    /\ remoteOk = TRUE
    /\ lastSeen = [l \in Listeners |->
                     IF l = "l1" THEN StatusEvent(FALSE, n, FALSE, 0)
                     ELSE NoEvent]
    /\ passes = <<>>
    /\ calls = NoCalls
    /\ refreshFailed = FALSE
    /\ lastNotify = [targets |-> <<>>, invoked |-> <<>>, threw |-> {}]
    /\ attempts = <<>>
    /\ acked = {}
    /\ PipelineRest /\ BreakerRest /\ ExtraRest

SpecHeard == InitHeard /\ [][NextDrain]_vars

\* C30: with no handler between two awaits and no timer of a pass armed,
\* every registered listener holds the current isOnline, pendingCount,
\* syncInProgress and lastSyncTime
C30_ListenersHoldCurrentStatus ==
  Quiescent => \A l \in Range(listeners) : lastSeen[l] = Current

\* ------------------------------------------------------------------------
\* Rows that are synced, deliveries while offline
\* ------------------------------------------------------------------------
\* C31: a row that is synced stays synced, whatever the service does next
C31_SyncedIsAbsorbing ==
  [][\A id \in Ids :
       queue[id].status = "synced" => queue'[id].status = "synced"]_vars

\* processOperation is called for a row in this step: pass i comes to
\* await the delivery of a row it was not awaiting before
BeginsDelivery(i) ==
  /\ i \in DOMAIN passes'
  /\ passes'[i].pc = "deliver"
  /\ \/ i \notin DOMAIN passes
     \/ passes[i].pc # "deliver"
     \/ passes[i].idx # passes'[i].idx

\* C32: every call of processOperation is made while isOnline is true
C32_DeliveriesBeginOnline ==
  [][\A i \in 1..MaxOps : BeginsDelivery(i) => isOnline]_vars

\* ------------------------------------------------------------------------
\* _sync_pending of a record and the rows queued for it
\* ------------------------------------------------------------------------
\* the rows queued for entity e
RowsOf(e) == {i \in Ids : queue[i].ent = e}

\* C33: a record just written locally has _sync_pending set, and once
\* every row queued for it is synced, with no local write under way, the
\* flag is cleared
C33_SyncPendingTracksQueue ==
  /\ (wpc # NoWrite /\ mirror[wpc.ent].stored) => mirror[wpc.ent].sp
  /\ \A e \in Entities :
       ( /\ wpc = NoWrite
         /\ RowsOf(e) # {}
         /\ \A i \in RowsOf(e) : queue[i].status = "synced" ) =>
         ~mirror[e].sp

\* ------------------------------------------------------------------------
\* What manualSync returns
\* ------------------------------------------------------------------------
\* manualSync after its await of refreshPendingCount: with a count above 0
\* it awaits syncPendingOperations and returns true, otherwise false
ManualReturns ==
  manualResult' =
    IF calls'["manual"] < calls["manual"]
    THEN [ret |-> pendingSyncCount' > 0, ran |-> Len(passes') > Len(passes)]
    ELSE manualResult

\* what the steps of SpecManual leave alone beside the record of manualSync
manualOnly ==
  <<hvars, pvars, bvars, handles, resets, wvars, denied, tvars, mvars, avars,
    gvars, escaped, lastFault, tried, lastSwitch>>

\* ---- SpecManual: manualSync among the other triggers of a pass ----------
NextManual ==
  \/ handleConnectionChange /\ UNCHANGED rest
  \/ Enqueue(PlainWrites, {1}) /\ UNCHANGED rest
  \/ manualSync /\ UNCHANGED rest
  \/ Refreshed /\ ManualReturns /\ UNCHANGED manualOnly
  \/ Selected /\ UNCHANGED rest
  \/ Delivered /\ UNCHANGED rest
  \/ Marked /\ UNCHANGED rest
  \/ Counted /\ UNCHANGED rest

SpecManual == Init /\ [][NextManual]_vars

\* C34: a call of manualSync that returns true has run a pass of its own
C34_TrueMeansItRanAPass == manualResult.ret => manualResult.ran


\* ---------------------------------------------------------------------
\* AuthService: refreshToken and authenticate.  One action is the code
\* between two awaits; the provider answers a posted request in its own
\* step and the answer reaches the caller in a later one.
\* ---------------------------------------------------------------------
AuthCalls == 1..MaxAuthCalls

isAuthenticated == stored.held /\ stored.fresh

saveTokens(g) == stored' = [held |-> TRUE, grant |-> g, fresh |-> TRUE]

clearTokens == stored' = NoTokens

\* the caller sets the flag and posts its request
Post(c, kind) ==
  /\ tokenRequestInProgress' = TRUE
  /\ apc' = [apc EXCEPT ![c] = [Resting EXCEPT !.kind = kind,
                                               !.pc = "posting"]]

\* the one-second wait of a caller that found the flag set
Wait(c, kind) ==
  /\ apc' = [apc EXCEPT ![c] = [Resting EXCEPT !.kind = kind,
                                               !.pc = "waiting"]]
  /\ UNCHANGED tokenRequestInProgress

Return(c, kind, ret) ==
  apc' = [apc EXCEPT ![c] = [Resting EXCEPT !.kind = kind, !.pc = "done",
                                             !.ret = ret]]

\* refreshToken up to its first await
refreshToken(c) ==
  /\ apc[c].pc = "idle"
  /\ IF ~stored.held
       THEN Return(c, "refresh", "threw") /\ UNCHANGED tokenRequestInProgress
       ELSE IF tokenRequestInProgress
              THEN Wait(c, "refresh")
              ELSE Post(c, "refresh")
  /\ UNCHANGED <<stored, granted, lastServed>>

\* authenticate up to its first await
authenticate(c) ==
  /\ apc[c].pc = "idle"
  /\ IF tokenRequestInProgress THEN Wait(c, "auth") ELSE Post(c, "auth")
  /\ UNCHANGED <<stored, granted, lastServed>>

\* the second elapsed: return if the tokens are valid by now, post otherwise
Waited(c) ==
  /\ apc[c].pc = "waiting"
  /\ IF isAuthenticated
       THEN /\ Return(c, apc[c].kind, "true")
            /\ UNCHANGED tokenRequestInProgress
       ELSE Post(c, apc[c].kind)
  /\ UNCHANGED <<stored, granted, lastServed>>

\* the provider answers a posted request: a new token set, or an error
Served(c, ok) ==
  /\ apc[c].pc = "posting"
  /\ ok => granted < MaxGrants
  /\ granted' = IF ok THEN granted + 1 ELSE granted
  /\ apc' = [apc EXCEPT ![c] = [@ EXCEPT !.pc = "served", !.ok = ok,
                                          !.grant = granted']]
  /\ lastServed' = [call |-> c, kind |-> apc[c].kind, ok |-> ok,
                    grant |-> granted']
  /\ UNCHANGED <<tokenRequestInProgress, stored>>

\* the answer arrives: try, catch and finally of the caller
Arrived(c) ==
  /\ apc[c].pc = "served"
  /\ IF apc[c].ok
       THEN /\ saveTokens(apc[c].grant)
            /\ Return(c, apc[c].kind, "true")
       ELSE IF apc[c].kind = "refresh"
              THEN clearTokens /\ Return(c, "refresh", "false")
              ELSE UNCHANGED stored /\ Return(c, "auth", "threw")
  /\ tokenRequestInProgress' = FALSE
  /\ UNCHANGED <<granted, lastServed>>

\* the stored access token comes within five minutes of its expiry
Expires ==
  /\ stored.held /\ stored.fresh
  /\ stored' = [stored EXCEPT !.fresh = FALSE]
  /\ UNCHANGED <<tokenRequestInProgress, apc, granted, lastServed>>

\* the caller's promise has settled; it may call again
CallAgain(c) ==
  /\ apc[c].pc = "done"
  /\ apc' = [apc EXCEPT ![c] = Resting]
  /\ UNCHANGED <<tokenRequestInProgress, stored, granted, lastServed>>

authOnly ==
  <<ovars, hvars, pvars, bvars, handles, resets, wvars, denied, tvars, mvars,
    yvars, gvars>>

NextAuth ==
  \/ \E c \in AuthCalls : refreshToken(c) /\ UNCHANGED authOnly
  \/ \E c \in AuthCalls : authenticate(c) /\ UNCHANGED authOnly
  \/ \E c \in AuthCalls : Waited(c) /\ UNCHANGED authOnly
  \/ \E c \in AuthCalls, ok \in BOOLEAN : Served(c, ok) /\ UNCHANGED authOnly
  \/ \E c \in AuthCalls : Arrived(c) /\ UNCHANGED authOnly
  \/ Expires /\ UNCHANGED authOnly
  \/ \E c \in AuthCalls : CallAgain(c) /\ UNCHANGED authOnly

SpecAuth == Init /\ [][NextAuth]_vars

Outstanding == {c \in AuthCalls : apc[c].pc \in {"posting", "served"}}

\* C35: at most one token request is outstanding at any time, and
\* tokenRequestInProgress is true exactly while one is outstanding.
C35_OneTokenRequestAtATime ==
  /\ Cardinality(Outstanding) <= 1
  /\ tokenRequestInProgress <=> Outstanding # {}

\* two requests are outstanding at once
C35_Witness == Cardinality(Outstanding) = 2


AtRest == \A c \in AuthCalls : apc[c].pc \in {"idle", "done"}

\* C36: once every concurrent refreshToken call has returned, if the one
\* the provider answered last succeeded, the stored tokens are there and
\* are the ones a successful refresh returned.
C36_SavedTokensSurvive ==
  (AtRest /\ lastServed.kind = "refresh" /\ lastServed.ok)
    => (stored.held /\ stored.grant > 0)

\* the provider's last answer was a success and the storage is empty
C36_Witness ==
  AtRest /\ lastServed.kind = "refresh" /\ lastServed.ok /\ ~stored.held


\* C37: a refresh that ends with the credential it started with leaves the
\* expiry alone: a credential that isTokenValid rejected before the refresh
\* is still rejected after it.
C37_SameTokenIsAFailure ==
  [][(refreshInProgress /\ ~refreshInProgress' /\ accessToken' = accessToken)
       => (isTokenValid' <=> isTokenValid)]_vars


\* ---- SpecSwitch: the mirror switch, with what the caller last asked ----
\* what a step of the mirror switch leaves alone beside that record
switchOnly ==
  <<ovars, hvars, pvars, handles, resets, wvars, denied, tvars, mvars, avars,
    gvars, escaped, lastFault, tried, manualResult>>

NextSwitch ==
  \/ (\E f \in Fetches : MirrorSyncStart(f))
       /\ UNCHANGED <<switchOnly, lastSwitch>>
  \/ (\E f \in Fetches, res \in SyncResults : MirrorSyncDone(f, res))
       /\ UNCHANGED <<switchOnly, lastSwitch>>
  \/ ReEnable /\ UNCHANGED <<switchOnly, lastSwitch>>
  \/ \E enable \in BOOLEAN :
       /\ setSupabaseSync(enable)
       /\ lastSwitch' = (IF enable THEN "on" ELSE "off")
       /\ UNCHANGED switchOnly
  \/ updateInteraction /\ UNCHANGED <<switchOnly, lastSwitch>>
  \/ Minute /\ UNCHANGED <<switchOnly, lastSwitch>>

SpecSwitch == Init /\ [][NextSwitch]_vars

\* C38: from setSupabaseSync(false) until the next setSupabaseSync(true),
\* mirror syncing is disabled.
C38_DisabledUntilEnabled == lastSwitch = "off" => ~useSyncToSupabase

\* the timer of an earlier permission error has fired after the caller
\* switched syncing off
C38_Witness == lastSwitch = "off" /\ useSyncToSupabase /\ lastRls >= 0


\* ---------------------------------------------------------------------
\* ProcoreAPI.getAllInteractions: the mirror first, the remote API when
\* the mirror gave nothing, and the fetch behind a delay when it gave rows
\* ---------------------------------------------------------------------
ReadOutcomes == {"rows", "nothing"}

FetchOutcomes == {"some", "empty", "failed"}

\* fetchFromProcoreOnly(useMockDataOnFailure, syncToSupabase) is called
fetchFromProcoreOnly(f, syncToSupabase) ==
  gpc' = [gpc EXCEPT ![f] = [@ EXCEPT !.pc = "fetching",
                                      !.sync = syncToSupabase]]

\* getAllInteractions up to its first await: the mirror is read when
\* syncing is on and asked for, the remote API otherwise
getAllInteractions(f, syncToSupabase) ==
  /\ gpc[f].pc = "idle"
  /\ IF useSyncToSupabase /\ syncToSupabase
       THEN gpc' = [gpc EXCEPT ![f] = [NotCalled EXCEPT !.pc = "reading",
                                                        !.late = rows]]
       ELSE gpc' = [gpc EXCEPT ![f] =
                      [NotCalled EXCEPT !.pc = "fetching",
                                        !.sync = syncToSupabase,
                                        !.late = rows]]
  /\ UNCHANGED <<rows, wrote, bvars>>

\* getInteractionsFromSupabase settles: the rows of the mirror, or [] when
\* it holds none or the read failed
MirrorRead(f, outcome) ==
  /\ gpc[f].pc = "reading"
  /\ outcome = "rows" => rows
  /\ IF outcome = "rows"
       THEN gpc' = [gpc EXCEPT ![f] = [@ EXCEPT !.pc = "timer",
                                                !.found = TRUE]]
       ELSE fetchFromProcoreOnly(f, TRUE)
  /\ UNCHANGED <<rows, wrote, bvars>>

\* as Background, with the fetch allowed to write to the mirror
BackgroundSyncing(f) ==
  /\ gpc[f].pc = "timer"
  /\ fetchFromProcoreOnly(f, TRUE)
  /\ UNCHANGED <<rows, wrote, bvars>>

\* the five-second timer of a call that returned the mirror's rows fires
Background(f) ==
  /\ gpc[f].pc = "timer"
  /\ fetchFromProcoreOnly(f, FALSE)
  /\ UNCHANGED <<rows, wrote, bvars>>

\* the remote fetch settles; what it got goes to the mirror if there is
\* any, syncing is on now and the call was given syncToSupabase
Fetched(f, got) ==
  /\ gpc[f].pc = "fetching"
  /\ IF got = "some" /\ useSyncToSupabase /\ gpc[f].sync
       THEN /\ MirrorSyncStart(f)
            /\ gpc' = [gpc EXCEPT ![f] = [@ EXCEPT !.pc = "syncing",
                                                   !.got = got]]
       ELSE /\ gpc' = [gpc EXCEPT ![f] = [@ EXCEPT !.pc = "done",
                                                   !.got = got]]
            /\ UNCHANGED bvars
  /\ UNCHANGED <<rows, wrote>>

\* syncInteractions settles: on success the mirror holds the fetched rows
MirrorWritten(f, res) ==
  /\ gpc[f].pc = "syncing"
  /\ MirrorSyncDone(f, res)
  /\ gpc' = [gpc EXCEPT ![f] = [@ EXCEPT !.pc = "done"]]
  /\ IF res = "ok"
       THEN /\ rows' = TRUE
            /\ wrote' = [by |-> f, found |-> gpc[f].found,
                         late |-> gpc[f].late]
       ELSE UNCHANGED <<rows, wrote>>

\* the call is over; the next one may begin
NextCall(f) ==
  /\ gpc[f].pc = "done"
  /\ gpc' = [gpc EXCEPT ![f] = NotCalled]
  /\ UNCHANGED <<rows, wrote, bvars>>

readOnly ==
  <<ovars, hvars, pvars, handles, resets, wvars, denied, tvars, mvars, avars,
    yvars>>

NextRead ==
  \/ \E f \in Fetches, syncToSupabase \in BOOLEAN :
       getAllInteractions(f, syncToSupabase) /\ UNCHANGED readOnly
  \/ \E f \in Fetches, outcome \in ReadOutcomes :
       MirrorRead(f, outcome) /\ UNCHANGED readOnly
  \/ \E f \in Fetches : Background(f) /\ UNCHANGED readOnly
  \/ \E f \in Fetches, got \in FetchOutcomes :
       Fetched(f, got) /\ UNCHANGED readOnly
  \/ \E f \in Fetches, res \in SyncResults :
       MirrorWritten(f, res) /\ UNCHANGED readOnly
  \/ \E f \in Fetches : NextCall(f) /\ UNCHANGED readOnly
  \/ \E enable \in BOOLEAN :
       setSupabaseSync(enable) /\ UNCHANGED <<readOnly, gvars>>

SpecRead == Init /\ [][NextRead]_vars

====
